---- MODULE Spec2Model ----
(***************************************************************************)
(* Model of signing_clients/apps.py: the JAR manifest / signature text     *)
(* format (Section, Manifest, Signature, Manifest.parse) and the archive   *)
(* pipeline of JarExtractor (priority sort, digests, make_signed).         *)
(*                                                                         *)
(* The code is Python 2: a str is a byte string.  A string is modelled as  *)
(* a sequence of byte codes (0..255), so that comparison, case folding,    *)
(* wrapping by length and base64 are computed as the code computes them.   *)
(***************************************************************************)
EXTENDS Integers, Sequences, FiniteSets, TLC

\* ------------------------------------------------------------------------
\* Byte codes of the characters the code names
\* ------------------------------------------------------------------------
NL == 10
SP == 32
COLON == 58
SLASH == 47
BACKSLASH == 92
DASH == 45
BASE64_PAD == 61

\* the line width of Section.__str__ (name[:72]) and of Manifest.parse (> 72)
WrapWidth == 72
MaxLineLen == 72

\* str.rstrip() / \s of the re module: space, \t, \n, \v, \f, \r
Whitespace == {9, 10, 11, 12, 13, 32}

\* ------------------------------------------------------------------------
\* Python str primitives
\* ------------------------------------------------------------------------
\* c * n
Rep(c, n) == [i \in 1..n |-> c]

LowerC(c) == IF c >= 65 /\ c <= 90 THEN c + 32 ELSE c
UpperC(c) == IF c >= 97 /\ c <= 122 THEN c - 32 ELSE c
\* str.lower(), str.upper()
Lower(s) == [i \in 1..Len(s) |-> LowerC(s[i])]
Upper(s) == [i \in 1..Len(s) |-> UpperC(s[i])]

\* s[a:] and s[:b] with 0-based Python slice bounds
From(s, a) == SubSeq(s, a + 1, Len(s))
UpTo(s, b) == SubSeq(s, 1, IF b < Len(s) THEN b ELSE Len(s))

\* a < b for two str (byte-wise lexicographic order)
StrLess(a, b) ==
    LET n == IF Len(a) < Len(b) THEN Len(a) ELSE Len(b)
        D == {i \in 1..n : a[i] # b[i]}
    IN  IF D = {} THEN Len(a) < Len(b)
        ELSE LET i == CHOOSE k \in D : \A j \in D : k <= j
             IN  a[i] < b[i]

\* str.rstrip()
RStrip(s) ==
    LET K == {i \in 1..Len(s) :
                s[i] \notin Whitespace /\ \A j \in (i + 1)..Len(s) : s[j] \in Whitespace}
    IN  IF K = {} THEN <<>> ELSE SubSeq(s, 1, CHOOSE k \in K : TRUE)

\* the index of the first character of s at or after i that is not
\* whitespace (Len(s) + 1 when there is none): what \s* consumes
SkipSpace(s, i) ==
    LET K == {j \in i..Len(s) : s[j] \notin Whitespace}
    IN  IF K = {} THEN Len(s) + 1
        ELSE CHOOSE k \in K : \A j \in K : k <= j

\* "sep".join(parts)
RECURSIVE Join(_, _)
Join(sep, parts) ==
    IF Len(parts) = 0 THEN <<>>
    ELSE IF Len(parts) = 1 THEN parts[1]
    ELSE parts[1] \o sep \o Join(sep, Tail(parts))

\* StringIO(buf).readlines(): the lines of buf, each with its "\n" kept; no
\* empty last line
RECURSIVE ReadLinesFrom(_, _)
ReadLinesFrom(buf, start) ==
    LET K == {i \in start..Len(buf) : buf[i] = NL}
    IN  IF start > Len(buf) THEN <<>>
        ELSE IF K = {} THEN <<SubSeq(buf, start, Len(buf))>>
        ELSE LET e == CHOOSE k \in K : \A j \in K : k <= j
             IN  <<SubSeq(buf, start, e)>> \o ReadLinesFrom(buf, e + 1)
readlines(buf) == ReadLinesFrom(buf, 1)

\* sorted(keys) of a set of str
RECURSIVE SortedStrs(_)
SortedStrs(S) ==
    IF S = {} THEN <<>>
    ELSE LET m == CHOOSE x \in S : \A y \in S \ {x} : StrLess(x, y)
         IN  <<m>> \o SortedStrs(S \ {m})

SeqToSet(s) == {s[i] : i \in 1..Len(s)}

\* ------------------------------------------------------------------------
\* base64.b64encode / base64.b64decode (standard alphabet)
\* ------------------------------------------------------------------------
\* the character of a 6-bit value
B64Char(n) ==
    IF n < 26 THEN 65 + n
    ELSE IF n < 52 THEN 97 + (n - 26)
    ELSE IF n < 62 THEN 48 + (n - 52)
    ELSE IF n = 62 THEN 43 ELSE 47

\* table_a2b_base64: the 6-bit value of a character, -1 when it has none
\* (the pad character has the value 0 in the table)
B64Val(c) ==
    IF c >= 65 /\ c <= 90 THEN c - 65
    ELSE IF c >= 97 /\ c <= 122 THEN c - 97 + 26
    ELSE IF c >= 48 /\ c <= 57 THEN c - 48 + 52
    ELSE IF c = 43 THEN 62
    ELSE IF c = 47 THEN 63
    ELSE IF c = BASE64_PAD THEN 0
    ELSE -1

RECURSIVE b64encode(_)
b64encode(b) ==
    IF Len(b) = 0 THEN <<>>
    ELSE IF Len(b) = 1
    THEN <<B64Char(b[1] \div 4), B64Char((b[1] % 4) * 16),
           BASE64_PAD, BASE64_PAD>>
    ELSE IF Len(b) = 2
    THEN <<B64Char(b[1] \div 4), B64Char((b[1] % 4) * 16 + (b[2] \div 16)),
           B64Char((b[2] % 16) * 4), BASE64_PAD>>
    ELSE <<B64Char(b[1] \div 4), B64Char((b[1] % 4) * 16 + (b[2] \div 16)),
           B64Char((b[2] % 16) * 4 + (b[3] \div 64)), B64Char(b[3] % 64)>>
         \o b64encode(SubSeq(b, 4, Len(b)))

\* a character a2b_base64 shifts in: one of the alphabet, the pad excluded
IsB64Data(c) == c <= 127 /\ c # BASE64_PAD /\ B64Val(c) # -1

\* binascii_find_valid(s, 1) from the pad character before index i: the
\* next character the table knows, -1 when there is none
NextValid(s, i) ==
    LET K == {j \in i..Len(s) : s[j] <= 127 /\ B64Val(s[j]) # -1}
    IN  IF K = {} THEN -1
        ELSE s[CHOOSE k \in K : \A j \in K : k <= j]

\* quad_pos when the loop of a2b_base64 reaches index i: the number of
\* characters shifted in before it, modulo 4
QuadPos(s, i) == Len(SelectSeq(SubSeq(s, 1, i - 1), IsB64Data)) % 4

\* binascii.a2b_base64: characters outside the alphabet are skipped; a pad
\* character is skipped when quad_pos < 2, or when quad_pos = 2 and the next
\* valid character is no pad, and otherwise ends the input; bits left over at
\* the end of the input are "Incorrect padding"
A2B(s) ==
    LET E == {i \in 1..Len(s) :
                /\ s[i] = BASE64_PAD
                /\ ~ (\/ QuadPos(s, i) < 2
                      \/ (QuadPos(s, i) = 2 /\ NextValid(s, i + 1) # BASE64_PAD))}
        stopped == E # {}
        stop == IF stopped THEN CHOOSE k \in E : \A j \in E : k <= j
                ELSE Len(s) + 1
        data == SelectSeq(SubSeq(s, 1, stop - 1), IsB64Data)
        v == [k \in 1..Len(data) |-> B64Val(data[k])]
        n == (Len(v) * 6) \div 8
        byte(k) == LET g == 4 * ((k - 1) \div 3)
                       r == (k - 1) % 3
                   IN  IF r = 0 THEN v[g + 1] * 4 + (v[g + 2] \div 16)
                       ELSE IF r = 1 THEN (v[g + 2] % 16) * 16 + (v[g + 3] \div 4)
                       ELSE (v[g + 3] % 4) * 64 + v[g + 4]
    IN  [ok |-> stopped \/ (Len(v) * 6) % 8 = 0,
         bytes |-> [k \in 1..n |-> byte(k)]]

\* b64decode(s): [ok, bytes]; ok = FALSE is the TypeError b64decode raises
\* for binascii.Error
b64decode(s) == A2B(s)

\* ------------------------------------------------------------------------
\* String constants of the code
\* ------------------------------------------------------------------------
S_NamePrefix == <<78, 97, 109, 101, 58, 32>>  \* 'Name: '
S_DigestAlgorithmsColon ==
    <<68, 105, 103, 101, 115, 116, 45, 65, 108, 103, 111, 114, 105, 116,
      104, 109, 115, 58>>  \* 'Digest-Algorithms:'
S_DigestSep == <<45, 68, 105, 103, 101, 115, 116, 58, 32>>  \* '-Digest: '
S_DigestManifestSep ==
    <<45, 68, 105, 103, 101, 115, 116, 45, 77, 97, 110, 105, 102, 101, 115,
      116, 58, 32>>  \* '-Digest-Manifest: '
S_VersionSep == <<45, 86, 101, 114, 115, 105, 111, 110, 58, 32>>  \* '-Version: '
S_Manifest == <<77, 97, 110, 105, 102, 101, 115, 116>>  \* 'Manifest'
S_Signature == <<83, 105, 103, 110, 97, 116, 117, 114, 101>>  \* 'Signature'
version == <<49, 46, 48>>  \* '1.0'
md5 == <<109, 100, 53>>  \* 'md5'
sha1 == <<115, 104, 97, 49>>  \* 'sha1'
S_name == <<110, 97, 109, 101>>  \* 'name'
S_digest_algorithms ==
    <<100, 105, 103, 101, 115, 116, 45, 97, 108, 103, 111, 114, 105, 116,
      104, 109, 115>>  \* 'digest-algorithms'
S_dversion == <<45, 118, 101, 114, 115, 105, 111, 110>>  \* '-version'
S_ddigest_manifest ==
    <<45, 100, 105, 103, 101, 115, 116, 45, 109, 97, 110, 105, 102, 101,
      115, 116>>  \* '-digest-manifest'
S_ddigest == <<45, 100, 105, 103, 101, 115, 116>>  \* '-digest'

\* headers_re: the header names of the alternation
HeaderNames ==
    << <<77, 97, 110, 105, 102, 101, 115, 116, 45, 86, 101, 114, 115, 105,
         111, 110>>,                                  \* 'Manifest-Version'
       <<83, 105, 103, 110, 97, 116, 117, 114, 101, 45, 86, 101, 114, 115,
         105, 111, 110>>,                             \* 'Signature-Version'
       <<78, 97, 109, 101>>,                          \* 'Name'
       <<68, 105, 103, 101, 115, 116, 45, 65, 108, 103, 111, 114, 105, 116,
         104, 109, 115>>,                             \* 'Digest-Algorithms'
       <<77, 68, 53, 45, 68, 105, 103, 101, 115, 116, 45, 77, 97, 110, 105,
         102, 101, 115, 116>>,                        \* 'MD5-Digest-Manifest'
       <<77, 68, 53, 45, 68, 105, 103, 101, 115, 116>>,  \* 'MD5-Digest'
       <<83, 72, 65, 49, 45, 68, 105, 103, 101, 115, 116, 45, 77, 97, 110,
         105, 102, 101, 115, 116>>,                   \* 'SHA1-Digest-Manifest'
       <<83, 72, 65, 49, 45, 68, 105, 103, 101, 115, 116>> >> \* 'SHA1-Digest'

\* ------------------------------------------------------------------------
\* _digest: hashlib.md5 / hashlib.sha1 are library code; they are modelled
\* as two deterministic checksums of the data with the digest sizes of the
\* two algorithms
\* ------------------------------------------------------------------------
MD5Size == 16
SHA1Size == 20

\* a term of the position-weighted sum of data[..hi]
Term(data, i, hi) == IF i <= hi THEN (data[i] + 1) * i ELSE 0

\* the sum over data[lo..hi], by halves down to runs of eight bytes
RECURSIVE CheckSum(_, _, _)
CheckSum(data, lo, hi) ==
    IF hi - lo < 8
    THEN (Term(data, lo, hi) + Term(data, lo + 1, hi) + Term(data, lo + 2, hi)
          + Term(data, lo + 3, hi) + Term(data, lo + 4, hi)
          + Term(data, lo + 5, hi) + Term(data, lo + 6, hi)
          + Term(data, lo + 7, hi)) % 65521
    ELSE (CheckSum(data, lo, (lo + hi) \div 2)
          + CheckSum(data, ((lo + hi) \div 2) + 1, hi)) % 65521

\* size bytes spread from the sum, the length and the salt of the algorithm
Spread(cs, len, size, salt) ==
    [i \in 1..size |-> (cs * (2 * i + salt) + (cs \div 256) * i + len + i * salt) % 256]

HashBytes(data, size, salt) ==
    Spread(CheckSum(data, 1, Len(data)), Len(data), size, salt)

_digest(data) ==
    (md5 :> HashBytes(data, MD5Size, 3)) @@ (sha1 :> HashBytes(data, SHA1Size, 7))

\* ------------------------------------------------------------------------
\* Section
\* ------------------------------------------------------------------------
\* a dict with no key
EmptyDict == <<>>

\* Section.__init__(name, algos=('md5', 'sha1'), digests={})
Section(name, algos, digests) ==
    [name |-> name, algos |-> algos, digests |-> digests]
DefaultAlgos == <<md5, sha1>>

\* the while loop of Section.__str__: the text cut in pieces of 72
\* characters, "\n " between two pieces
RECURSIVE WrapName(_)
WrapName(name) ==
    IF Len(name) = 0 THEN <<>>
    ELSE UpTo(name, WrapWidth)
         \o (IF Len(From(name, WrapWidth)) > 0
             THEN <<NL, SP>> \o WrapName(From(name, WrapWidth))
             ELSE <<>>)

RECURSIVE AlgoList(_)
AlgoList(order) ==
    IF Len(order) = 0 THEN <<>>
    ELSE <<SP>> \o Upper(order[1]) \o AlgoList(Tail(order))

RECURSIVE DigestLines(_, _)
DigestLines(order, digests) ==
    IF Len(order) = 0 THEN <<>>
    ELSE Upper(order[1]) \o S_DigestSep \o b64encode(digests[order[1]]) \o <<NL>>
         \o DigestLines(Tail(order), digests)

\* Section.__str__
SectionStr(sec) ==
    LET order == SortedStrs(DOMAIN sec.digests)
    IN  WrapName(S_NamePrefix \o sec.name) \o <<NL>>
        \o S_DigestAlgorithmsColon \o AlgoList(order) \o <<NL>>
        \o DigestLines(order, sec.digests)

\* ------------------------------------------------------------------------
\* Manifest and Signature
\* ------------------------------------------------------------------------
\* a Manifest (klass = "Manifest") or Signature (klass = "Signature"): the
\* list of Sections plus the attributes set from the keyword arguments
ManifestObj(sections) ==
    [klass |-> "Manifest", sections |-> sections, has_dm |-> FALSE,
     digest_manifests |-> EmptyDict, omit_individual_sections |-> FALSE]
ManifestWith(sections, dm) ==
    [klass |-> "Manifest", sections |-> sections, has_dm |-> TRUE,
     digest_manifests |-> dm, omit_individual_sections |-> FALSE]
SignatureObj(sections, dm, omit) ==
    [klass |-> "Signature", sections |-> sections, has_dm |-> TRUE,
     digest_manifests |-> dm, omit_individual_sections |-> omit]

\* Manifest.header: type(self).__name__.title() + "-Version: " + version
ManifestHeader(m) ==
    (IF m.klass = "Signature" THEN S_Signature ELSE S_Manifest)
    \o S_VersionSep \o version

\* Manifest.body
ManifestBody(m) ==
    Join(<<NL>>, [i \in 1..Len(m.sections) |-> SectionStr(m.sections[i])])

\* Manifest.__str__
ManifestStr(m) == Join(<<NL>>, <<ManifestHeader(m), <<>>, ManifestBody(m)>>)

\* Signature.digest_manifest
DigestManifestLines(m) ==
    LET order == SortedStrs(DOMAIN m.digest_manifests)
    IN  [i \in 1..Len(order) |->
            Upper(order[i]) \o S_DigestManifestSep
            \o b64encode(m.digest_manifests[order[i]])]

\* Signature.header
SignatureHeader(m) == Join(<<NL>>, <<ManifestHeader(m)>> \o DigestManifestLines(m))

\* Signature.__str__
SignatureStr(m) ==
    IF m.omit_individual_sections
    THEN SignatureHeader(m) \o <<NL>>
    ELSE Join(<<NL>>, <<SignatureHeader(m), <<>>, ManifestBody(m)>>)

\* str(m) for either class
Str(m) == IF m.klass = "Signature" THEN SignatureStr(m) ELSE ManifestStr(m)

\* ------------------------------------------------------------------------
\* Manifest.parse
\* ------------------------------------------------------------------------
EndsWith(s, suffix) ==
    Len(s) >= Len(suffix)
    /\ SubSeq(s, Len(s) - Len(suffix) + 1, Len(s)) = suffix

\* s[:-n]
DropLast(s, n) == SubSeq(s, 1, Len(s) - n)

\* directory_re.search(value): the last character is / or \
directory_re(value) ==
    Len(value) > 0 /\ value[Len(value)] \in {SLASH, BACKSLASH}

\* continuation_re.match(line): the line starts with one space; group(1)
\* is the rest
continuation_re(line) ==
    [ok |-> Len(line) > 0 /\ line[1] = SP, rest |-> Tail(line)]

\* headers_re.match(line) against one header name h (re.I): h, \s*, ":",
\* \s*, then the value
HeaderMatchOne(line, h) ==
    LET j == SkipSpace(line, Len(h) + 1)
    IN  IF /\ Len(line) >= Len(h)
           /\ Lower(SubSeq(line, 1, Len(h))) = Lower(h)
           /\ j <= Len(line)
           /\ line[j] = COLON
        THEN [ok |-> TRUE, header |-> SubSeq(line, 1, Len(h)),
              value |-> SubSeq(line, SkipSpace(line, j + 1), Len(line))]
        ELSE [ok |-> FALSE, header |-> <<>>, value |-> <<>>]

\* headers_re.match(line): group(1) and group(2) of the alternative that
\* matches
headers_re(line) ==
    LET K == {k \in 1..Len(HeaderNames) : HeaderMatchOne(line, HeaderNames[k]).ok}
    IN  IF K = {} THEN [ok |-> FALSE, header |-> <<>>, value |-> <<>>]
        ELSE HeaderMatchOne(line, HeaderNames[CHOOSE k \in K : \A j \in K : k <= j])

\* re.split('\s*', value) of Python 2, which never splits on an empty
\* match: the pieces between the runs of whitespace
RECURSIVE SplitWS(_)
SplitWS(value) ==
    LET K == {i \in 1..Len(value) : value[i] \in Whitespace}
    IN  IF K = {} THEN <<value>>
        ELSE LET i == CHOOSE k \in K : \A j \in K : k <= j
             IN  <<SubSeq(value, 1, i - 1)>>
                 \o SplitWS(SubSeq(value, SkipSpace(value, i), Len(value)))

\* the dict item of parse: the keys it holds and their values
EmptyItem == [has |-> {}, name |-> <<>>, algos |-> <<>>, digests |-> EmptyDict]

\* Section(item.pop('name'), **item)
SectionOfItem(item) ==
    Section(item.name,
            IF "algos" \in item.has THEN item.algos ELSE DefaultAlgos,
            IF "digests" \in item.has THEN item.digests ELSE EmptyDict)

\* the locals of parse before the first line
ParseStart ==
    [items |-> <<>>, item |-> EmptyItem, header |-> <<>>,
     has_dm |-> FALSE, dm |-> EmptyDict, lineno |-> 0,
     err |-> "none", msg |-> "", errline |-> 0]

\* raise: the exception, the text of its message and the line number the
\* message carries (0 when it carries none)
Raise(st, err, msg, errline) ==
    [st EXCEPT !.err = err, !.msg = msg, !.errline = errline]

\* the header branch of the loop body, for a line headers_re matches
ParseHeader(st, m) ==
    LET header == Lower(m.header)
        value == m.value
        s1 == [st EXCEPT !.header = header]
    IN  IF EndsWith(header, S_dversion) THEN s1
        ELSE IF EndsWith(header, S_ddigest_manifest)
        THEN IF b64decode(value).ok
             THEN [s1 EXCEPT !.has_dm = TRUE,
                             !.dm = (DropLast(header, 16) :> b64decode(value).bytes) @@ st.dm]
             ELSE Raise(s1, "TypeError", "Incorrect padding", 0)
        ELSE IF header = S_name
        THEN IF directory_re(value) THEN s1
             ELSE [s1 EXCEPT !.item.has = @ \cup {"name"}, !.item.name = value]
        ELSE IF header = S_digest_algorithms
        THEN [s1 EXCEPT !.item.has = @ \cup {"algos"},
                        !.item.algos = SplitWS(Lower(value))]
        ELSE IF EndsWith(header, S_ddigest)
        THEN IF b64decode(value).ok
             THEN [s1 EXCEPT !.item.has = @ \cup {"digests"},
                             !.item.digests =
                                 (DropLast(header, 7) :> b64decode(value).bytes)
                                 @@ st.item.digests]
             ELSE Raise(s1, "TypeError", "Incorrect padding", 0)
        ELSE s1

\* a parser that rejects a line of 72 characters too
TooLong_from72(line) == Len(line) >= MaxLineLen

\* len(line) > 72
TooLong(line) == Len(line) > MaxLineLen

\* one turn of the for loop of parse
ParseLine(st, rawline) ==
    LET lineno == st.lineno + 1
        line == RStrip(rawline)
        s0 == [st EXCEPT !.lineno = lineno]
        continued == continuation_re(line)
        match == headers_re(line)
    IN  IF TooLong(line)
        THEN Raise(s0, "ParsingError", "line too long", lineno)
        ELSE IF Len(line) = 0
        THEN IF st.item.has # {}
             THEN IF "name" \in st.item.has
                  THEN [s0 EXCEPT !.items = Append(@, SectionOfItem(st.item)),
                                  !.item = EmptyItem, !.header = <<>>]
                  ELSE Raise(s0, "KeyError", "name", 0)
             ELSE [s0 EXCEPT !.header = <<>>]
        ELSE IF continued.ok
        THEN IF st.header = <<>>
             THEN Raise(s0, "ParsingError", "continued line without previous header",
                        lineno)
             ELSE IF st.header = S_name /\ "name" \in st.item.has
             THEN [s0 EXCEPT !.item.name = @ \o continued.rest]
             ELSE Raise(s0, "KeyError", "header", 0)
        ELSE IF ~ match.ok
        THEN Raise(s0, "ParsingError", "Unrecognized line format", 0)
        ELSE ParseHeader(s0, match)

\* the for loop over itertools.chain(fest.readlines(), "\n" * 2); an
\* exception ends it
RECURSIVE ParseLines(_, _, _)
ParseLines(st, lines, i) ==
    IF i > Len(lines) \/ st.err # "none" THEN st
    ELSE ParseLines(ParseLine(st, lines[i]), lines, i + 1)

\* a parse that appends no newlines to the lines of its input
ChainedLines_noneAppended(buf) == readlines(buf)

\* the lines parse iterates over
ChainedLines(buf) == readlines(buf) \o <<<<NL>>, <<NL>>>>

\* the locals of parse when the loop ends
ParseLoop(buf) == ParseLines(ParseStart, ChainedLines(buf), 1)

\* no Manifest: the call raised
NoManifest == [klass |-> "None"]

\* Manifest.parse(buf): the exception raised ("none" when it returns) and
\* the Manifest returned
parse(buf) ==
    LET st == ParseLoop(buf)
    IN  [err |-> st.err, msg |-> st.msg, errline |-> st.errline,
         manifest |-> IF st.err # "none" THEN NoManifest
                      ELSE IF st.has_dm THEN ManifestWith(st.items, st.dm)
                      ELSE ManifestObj(st.items)]

\* ------------------------------------------------------------------------
\* file_key and the constructor of JarExtractor
\* ------------------------------------------------------------------------
N_install_rdf == <<105, 110, 115, 116, 97, 108, 108, 46, 114, 100, 102>>  \* 'install.rdf'
N_chrome_manifest ==
    <<99, 104, 114, 111, 109, 101, 46, 109, 97, 110, 105, 102, 101, 115, 116>>  \* 'chrome.manifest'
N_icon_png == <<105, 99, 111, 110, 46, 112, 110, 103>>  \* 'icon.png'
N_icon64_png == <<105, 99, 111, 110, 54, 52, 46, 112, 110, 103>>  \* 'icon64.png'
N_MPL == <<77, 80, 76>>  \* 'MPL'
N_GPL == <<71, 80, 76>>  \* 'GPL'
N_LGPL == <<76, 71, 80, 76>>  \* 'LGPL'
N_COPYING == <<67, 79, 80, 89, 73, 78, 71>>  \* 'COPYING'
N_LICENSE == <<76, 73, 67, 69, 78, 83, 69>>  \* 'LICENSE'
N_license_txt == <<108, 105, 99, 101, 110, 115, 101, 46, 116, 120, 116>>  \* 'license.txt'
S_zigbert_rsa ==
    <<77, 69, 84, 65, 45, 73, 78, 70, 47, 122, 105, 103, 98, 101, 114, 116,
      46, 114, 115, 97>>  \* 'META-INF/zigbert.rsa'
S_manifest_mf ==
    <<77, 69, 84, 65, 45, 73, 78, 70, 47, 109, 97, 110, 105, 102, 101, 115,
      116, 46, 109, 102>>  \* 'META-INF/manifest.mf'
S_zigbert_sf ==
    <<77, 69, 84, 65, 45, 73, 78, 70, 47, 122, 105, 103, 98, 101, 114, 116,
      46, 115, 102>>  \* 'META-INF/zigbert.sf'

\* a file_key that has no class for the licence files
Prio_noLicenceClass(name) ==
    IF name = N_install_rdf THEN 1
    ELSE IF name \in {N_chrome_manifest, N_icon_png, N_icon64_png} THEN 2
    ELSE 4

\* the priority class of file_key
Prio(name) ==
    IF name = N_install_rdf THEN 1
    ELSE IF name \in {N_chrome_manifest, N_icon_png, N_icon64_png} THEN 2
    ELSE IF name \in {N_MPL, N_GPL, N_LGPL, N_COPYING, N_LICENSE, N_license_txt}
    THEN 5
    ELSE 4

\* os.path.split(p) (posixpath): p cut after its last "/"; the slashes at
\* the end of the head are stripped unless the head is slashes only
PathSplit(p) ==
    LET K == {i \in 1..Len(p) : p[i] = SLASH}
        i == IF K = {} THEN 0 ELSE CHOOSE k \in K : \A j \in K : j <= k
        head == SubSeq(p, 1, i)
        tail == SubSeq(p, i + 1, Len(p))
        N == {j \in 1..Len(head) : head[j] # SLASH}
    IN  <<IF N = {} THEN head
          ELSE SubSeq(head, 1, CHOOSE k \in N : \A j \in N : j <= k),
          tail>>

\* file_key(zinfo): "%d-%s-%s" % (prio, head, tail) of the lower-cased name
file_key(zinfo) ==
    LET parts == PathSplit(Lower(zinfo.filename))
    IN  <<48 + Prio(zinfo.filename)>> \o <<DASH>> \o parts[1] \o <<DASH>> \o parts[2]

\* sorted(filelist, key=file_key): a stable sort, ascending by key
RECURSIVE sorted_by_file_key(_)
sorted_by_file_key(filelist) ==
    IF Len(filelist) = 0 THEN <<>>
    ELSE LET x == filelist[Len(filelist)]
             front == sorted_by_file_key(SubSeq(filelist, 1, Len(filelist) - 1))
             n == Cardinality({i \in 1..Len(front) :
                                  ~ StrLess(file_key(x), file_key(front[i]))})
         IN  SubSeq(front, 1, n) \o <<x>> \o SubSeq(front, n + 1, Len(front))

\* zin.read(name): the data of the entry of that name (the last one, as
\* NameToInfo keeps the last)
ZipRead(zin, name) ==
    LET K == {i \in 1..Len(zin) : zin[i].filename = name}
    IN  zin[CHOOSE k \in K : \A j \in K : j <= k].data

\* tuple(digests.keys())
DictKeys(d) == SortedStrs(DOMAIN d)

\* the loop of JarExtractor.__init__ over the sorted file list: a Section
\* for every entry that is no directory
RECURSIVE DigestEntries(_, _)
DigestEntries(zin, files) ==
    IF Len(files) = 0 THEN <<>>
    ELSE LET f == files[1]
             digests == _digest(ZipRead(zin, f.filename))
         IN  (IF directory_re(f.filename) THEN <<>>
              ELSE <<Section(f.filename, DictKeys(digests), digests)>>)
             \o DigestEntries(zin, Tail(files))

\* a path that is None
None == "None"

\* JarExtractor.__init__(path, outpath, omit_signature_sections), zin being
\* the archive at path
JarExtractor(zin, outpath, omit_signature_sections) ==
    [outpath |-> outpath,
     omit_sections |-> omit_signature_sections,
     _digests |-> DigestEntries(zin, sorted_by_file_key(zin)),
     _manifest |-> NoManifest,
     _sig |-> NoManifest]

\* a _sign that keeps the digests of the content of the entry
_sign_content(item) == Section(item.name, DictKeys(item.digests), item.digests)

\* JarExtractor._sign(item)
_sign(item) ==
    LET digests == _digest(SectionStr(item))
    IN  Section(item.name, DictKeys(digests), digests)

\* "not self._manifest": None, or a Manifest (a list) with no Section
Falsy(m) == m = NoManifest \/ Len(m.sections) = 0

\* the extractor after the property manifest was read
WithManifest(jar) ==
    IF Falsy(jar._manifest)
    THEN [jar EXCEPT !._manifest = ManifestObj(jar._digests)]
    ELSE jar

\* a Signature whose digest_manifests are the digests of the body of the
\* manifest, its header left out
NewSignature_bodyOnly(jar) ==
    SignatureObj([i \in 1..Len(jar._digests) |-> _sign(jar._digests[i])],
                 _digest(ManifestBody(WithManifest(jar)._manifest)),
                 jar.omit_sections)

\* the Signature the property signatures builds
NewSignature(jar) ==
    SignatureObj([i \in 1..Len(jar._digests) |-> _sign(jar._digests[i])],
                 _digest(Str(WithManifest(jar)._manifest)),
                 jar.omit_sections)

\* the extractor after the property signatures was read
WithSignatures(jar) ==
    IF Falsy(jar._sig)
    THEN [WithManifest(jar) EXCEPT !._sig = NewSignature(jar)]
    ELSE jar

\* a signature property that returns the whole text of the Signature
signature_wholeText(jar) == Str(WithSignatures(jar)._sig)

\* the value of the property signature
signature(jar) == SignatureHeader(WithSignatures(jar)._sig) \o <<NL>>

\* ------------------------------------------------------------------------
\* Bounds and inputs of the model
\* ------------------------------------------------------------------------
\* entries of an input archive of make_signed
MaxEntries == 2
\* entries of an input archive whose manifest order is examined
MaxOrderEntries == 4
\* the construction counters saturate here
MaxBuilds == 2
\* Sections of a Manifest that is serialized
MaxSections == 2
\* lines of an input text of parse
MaxLines == 3
\* the longest Section name
MaxNameLen == 138

N_foo_txt == <<102, 111, 111, 46, 116, 120, 116>>  \* 'foo.txt'
N_Foo_txt == <<70, 111, 111, 46, 116, 120, 116>>  \* 'Foo.txt'
N_dir == <<100, 105, 114, 47>>  \* 'dir/'
N_a_z == <<97, 47, 122>>  \* 'a/z'
N_ab_c == <<97, 45, 98, 47, 99>>  \* 'a-b/c'
N_a_bc == <<97, 47, 98, 45, 99>>  \* 'a/b-c'

\* an entry of an archive; the data of an entry is fixed by its name
Entry(filename, data) == [filename |-> filename, data |-> data]
Content(name) == <<Len(name)>> \o Lower(name)
ZipEntry(name) == Entry(name, Content(name))

\* the sequences of at most n distinct elements of S
RECURSIVE DistinctSeqs(_, _)
DistinctSeqs(S, n) ==
    IF n = 0 THEN {<<>>}
    ELSE LET shorter == DistinctSeqs(S, n - 1)
         IN  shorter \cup
             {Append(x[1], x[2]) :
                x \in {y \in shorter \X S :
                         Len(y[1]) = n - 1 /\ y[2] \notin SeqToSet(y[1])}}

\* the archives make_signed is run on
JarNames == {N_foo_txt, N_dir, N_install_rdf}
JarArchives ==
    {[i \in 1..Len(q) |-> ZipEntry(q[i])] : q \in DistinctSeqs(JarNames, MaxEntries)}

\* the archives whose manifest order is examined
OrderNames ==
    {N_install_rdf, N_chrome_manifest, N_foo_txt, N_LICENSE, N_a_z, N_ab_c,
     N_a_bc}
OrderArchives ==
    {[i \in 1..Len(q) |-> ZipEntry(q[i])] : q \in DistinctSeqs(OrderNames, MaxOrderEntries)}

\* the Section names that are serialized: runs of "a" of the lengths that
\* put the end of the name at the wrap boundaries of "Name: <name>", with
\* one character of BoundaryChars at the end of the first line, at the start
\* of the continuation line or at the end of the name
NameLens == {7, WrapWidth - 6, WrapWidth - 5, MaxNameLen - 1, MaxNameLen}
BoundaryChars == {97, SP, SLASH}
Fill(len, c, p) == [i \in 1..len |-> IF i = p THEN c ELSE 97]
FormatNames ==
    UNION {{Fill(len, c, p) : c \in BoundaryChars,
                              p \in {WrapWidth - 6, WrapWidth - 5, len}} :
           len \in NameLens}

\* the Sections that are serialized: algos are the keys of digests
DigestsOf(data) == _digest(data)
Md5Only(data) == (md5 :> _digest(data)[md5])
SectionPool ==
    {Section(n, DictKeys(DigestsOf(<<1>>)), DigestsOf(<<1>>)) : n \in FormatNames}
    \cup {Section(N_foo_txt, DictKeys(Md5Only(<<2>>)), Md5Only(<<2>>))}
ShortSections ==
    {Section(N_foo_txt, DictKeys(DigestsOf(<<3>>)), DigestsOf(<<3>>)),
     Section(N_a_z, DictKeys(Md5Only(<<4>>)), Md5Only(<<4>>))}

\* the Manifests that are serialized: at most MaxSections Sections, the first
\* of SectionPool and the others of ShortSections
RECURSIVE SectionSeqs(_)
SectionSeqs(n) ==
    IF n = 0 THEN {<<>>}
    ELSE IF n = 1 THEN {<<>>} \cup {<<x>> : x \in SectionPool}
    ELSE SectionSeqs(n - 1)
         \cup {Append(q, x) : q \in {r \in SectionSeqs(n - 1) : Len(r) = n - 1},
                              x \in ShortSections}
Manifests == {ManifestObj(q) : q \in SectionSeqs(MaxSections)}

\* the lines of the texts that are parsed
L_Name_a == <<78, 97, 109, 101, 58, 32, 97>>  \* 'Name: a'
L_Name_dir == <<78, 97, 109, 101, 58, 32, 100, 47>>  \* 'Name: d/'
L_cont_b == <<32, 98>>  \* ' b'
L_cont_slash == <<32, 47>>  \* ' /'
L_Algos ==
    <<68, 105, 103, 101, 115, 116, 45, 65, 108, 103, 111, 114, 105, 116, 104,
      109, 115, 58, 32, 77, 68, 53>>  \* 'Digest-Algorithms: MD5'
L_MD5 ==
    <<77, 68, 53, 45, 68, 105, 103, 101, 115, 116, 58, 32, 65, 65, 65, 65>>  \* 'MD5-Digest: AAAA'
L_Bogus == <<66, 111, 103, 117, 115>>  \* 'Bogus'
L_Version ==
    <<77, 97, 110, 105, 102, 101, 115, 116, 45, 86, 101, 114, 115, 105, 111,
      110, 58, 32, 49, 46, 48>>  \* 'Manifest-Version: 1.0'
L_DM ==
    <<77, 68, 53, 45, 68, 105, 103, 101, 115, 116, 45, 77, 97, 110, 105, 102,
      101, 115, 116, 58, 32, 65, 65, 65, 65>>  \* 'MD5-Digest-Manifest: AAAA'
L_BadPad ==
    <<83, 72, 65, 49, 45, 68, 105, 103, 101, 115, 116, 58, 32, 65>>  \* 'SHA1-Digest: A'
\* 'Name: aaa...' of MaxLineLen + 1 characters
L_TooLong == S_NamePrefix \o Rep(97, MaxLineLen - 5)
\* 'Name: aaa...' of MaxLineLen characters, then two spaces
L_Longest == S_NamePrefix \o Rep(97, MaxLineLen - 6) \o <<SP, SP>>
L_Blank == <<>>
LinePool ==
    {L_Name_a, L_Name_dir, L_cont_b, L_cont_slash, L_Algos, L_MD5, L_Bogus,
     L_Version, L_DM, L_BadPad, L_TooLong, L_Longest, L_Blank}

\* the text of a sequence of lines, each ended by "\n"
RECURSIVE TextOfLines(_)
TextOfLines(q) ==
    IF Len(q) = 0 THEN <<>> ELSE q[1] \o <<NL>> \o TextOfLines(Tail(q))

\* the texts that are parsed: at most MaxLines lines of LinePool
InputTexts ==
    {TextOfLines(q) : q \in UNION {[1..n -> LinePool] : n \in 0..MaxLines}}

\* paths of the file system: P_ALT is the path of a file that exists
P_OUT == "out.xpi"
P_ALT == "alt.xpi"
Paths == {P_OUT, P_ALT}
EmptyPath == ""

\* a file: whether it exists and, for an archive, the entries stored in it
Absent == [exists |-> FALSE, entries |-> <<>>]
File(entries) == [exists |-> TRUE, entries |-> entries]
OldFile == File(<<Entry(<<111, 108, 100>>, <<0>>)>>)

\* the signature argument of make_signed: a str, or a value that is none
SigBytes == [is_str |-> TRUE, bytes |-> <<48, 130, 1>>]
NotAStr == [is_str |-> FALSE, bytes |-> <<>>]

\* the entry whose read fails when the environment makes make_signed fail
\* inside its loop: the k-th it copies (0: none)
FailPoints == 0..MaxEntries

\* ------------------------------------------------------------------------
\* State
\* ------------------------------------------------------------------------
VARIABLES
    zin,      \* the input archive at JarExtractor.inpath: its entries as stored
    jar,      \* the fields of the JarExtractor
    fs,       \* the file system: the file at each path
    result,   \* the last call on the JarExtractor and its outcome
    nbuilt,   \* how many Manifest and Signature objects the properties built
    fm,       \* a Manifest built from Sections, to be serialized
    buf,      \* a text: the argument of Manifest.parse
    parsed    \* the outcome of Manifest.parse(buf)

vars == <<zin, jar, fs, result, nbuilt, fm, buf, parsed>>
jarVars == <<zin, jar, fs, result, nbuilt>>
formatVars == <<fm, buf, parsed>>

NoResult ==
    [op |-> "none", err |-> "none", msg |-> "", arg |-> None, outpath |-> None,
     existed |-> FALSE, signature |-> NotAStr, value |-> <<>>]
NoText == [set |-> FALSE, text |-> <<>>]
Text(t) == [set |-> TRUE, text |-> t]
NotParsed == [err |-> "not called", msg |-> "", errline |-> 0, manifest |-> NoManifest]

Min(a, b) == IF a < b THEN a ELSE b

\* ------------------------------------------------------------------------
\* JarExtractor: the properties and make_signed
\* ------------------------------------------------------------------------
\* the Manifest objects reading the property manifest constructs: one when
\* the cached value is None or empty
ManifestBuilds(j) == IF Falsy(j._manifest) THEN 1 ELSE 0

\* the objects reading the property signatures constructs: a Signature when
\* the cached value is None or empty, and then the Manifest that the
\* property manifest constructs for it
SignatureBuilds(j) == IF Falsy(j._sig) THEN 1 ELSE 0
SignaturesManifestBuilds(j) == IF Falsy(j._sig) THEN ManifestBuilds(j) ELSE 0

Count(n, k) == Min(n + k, MaxBuilds)

\* x = jar.manifest
GetManifest ==
    /\ jar' = WithManifest(jar)
    /\ nbuilt' = [nbuilt EXCEPT !.manifest = Count(@, ManifestBuilds(jar))]
    /\ result' = [NoResult EXCEPT !.op = "manifest"]
    /\ UNCHANGED <<zin, fs, formatVars>>

\* x = jar.signatures
GetSignatures ==
    /\ jar' = WithSignatures(jar)
    /\ nbuilt' = [manifest |-> Count(nbuilt.manifest, SignaturesManifestBuilds(jar)),
                  sig |-> Count(nbuilt.sig, SignatureBuilds(jar))]
    /\ result' = [NoResult EXCEPT !.op = "signatures"]
    /\ UNCHANGED <<zin, fs, formatVars>>

\* x = jar.signature
GetSignature ==
    /\ jar' = WithSignatures(jar)
    /\ nbuilt' = [manifest |-> Count(nbuilt.manifest, SignaturesManifestBuilds(jar)),
                  sig |-> Count(nbuilt.sig, SignatureBuilds(jar))]
    /\ result' = [NoResult EXCEPT !.op = "signature", !.value = signature(jar)]
    /\ UNCHANGED <<zin, fs, formatVars>>

\* sorted(zin.infolist()): ZipInfo defines no order, so Python 2 orders the
\* objects by their addresses; order is the order that results
SortedInfolist(infolist, order) == [i \in 1..Len(infolist) |-> infolist[order[i]]]

\* a make_signed that writes the manifest before the entries of the input
SignedEntries_manifestFirst(sigbytes, payload, j) ==
    <<Entry(S_zigbert_rsa, sigbytes),
      Entry(S_manifest_mf, Str(WithManifest(j)._manifest))>>
    \o payload
    \o <<Entry(S_zigbert_sf, Str(WithSignatures(WithManifest(j))._sig))>>

\* the entries make_signed writes to zout, in the order it writes them
SignedEntries(sigbytes, payload, j) ==
    <<Entry(S_zigbert_rsa, sigbytes)>>
    \o payload
    \o <<Entry(S_manifest_mf, Str(WithManifest(j)._manifest)),
         Entry(S_zigbert_sf, Str(WithSignatures(WithManifest(j))._sig))>>

\* self.outpath or outpath: the constructor's path taking precedence
EffectiveOutpath_ctorFirst(arg, j) ==
    IF j.outpath \in {None, EmptyPath} THEN arg ELSE j.outpath

\* outpath or self.outpath
EffectiveOutpath(arg, j) == IF arg \in {None, EmptyPath} THEN j.outpath ELSE arg

\* the file the with block of make_signed leaves at outpath when it is left
\* by an exception: ZipFile.__exit__ closes the archive with the entries
\* written so far
LeftBehind(entries) == File(entries)

\* the record of a call of make_signed
Call(arg, outpath) ==
    [NoResult EXCEPT !.op = "make_signed", !.arg = arg, !.outpath = outpath]

\* make_signed raises before it opens an archive: no output path, or a file
\* at the output path
MakeSignedRefused(arg) ==
    LET outpath == EffectiveOutpath(arg, jar)
    IN  /\ \/ /\ outpath \in {None, EmptyPath}
              /\ result' = [Call(arg, outpath) EXCEPT
                               !.err = "IOError", !.msg = "No output file specified"]
           \/ /\ outpath \notin {None, EmptyPath}
              /\ fs[outpath].exists
              /\ result' = [Call(arg, outpath) EXCEPT
                               !.err = "IOError", !.existed = TRUE,
                               !.msg = "File already exists"]
        /\ UNCHANGED <<zin, jar, fs, nbuilt, formatVars>>

\* the archive at inpath cannot be opened: ZipFile(self.inpath) raises before
\* ZipFile(outpath, 'w') is reached
MakeSignedNoInput(arg) ==
    LET outpath == EffectiveOutpath(arg, jar)
    IN  /\ outpath \notin {None, EmptyPath}
        /\ ~ fs[outpath].exists
        /\ result' = [Call(arg, outpath) EXCEPT
                         !.err = "IOError", !.msg = "opening the input archive"]
        /\ UNCHANGED <<zin, jar, fs, nbuilt, formatVars>>

\* writestr of a signature that is no str raises inside the two with
\* blocks, the output archive being open and empty
MakeSignedBadSignature(sig, arg) ==
    LET outpath == EffectiveOutpath(arg, jar)
    IN  /\ outpath \notin {None, EmptyPath}
        /\ ~ fs[outpath].exists
        /\ ~ sig.is_str
        /\ result' = [Call(arg, outpath) EXCEPT
                         !.err = "TypeError", !.signature = sig,
                         !.msg = "writing the signature block"]
        /\ fs' = [fs EXCEPT ![outpath] = LeftBehind(<<>>)]
        /\ UNCHANGED <<zin, jar, nbuilt, formatVars>>

\* the read of the entry at position fail of the sorted list raises inside
\* the two with blocks
MakeSignedInterrupted(sig, arg, fail, order) ==
    LET outpath == EffectiveOutpath(arg, jar)
        payload == SortedInfolist(zin, order)
    IN  /\ outpath \notin {None, EmptyPath}
        /\ ~ fs[outpath].exists
        /\ sig.is_str
        /\ fail >= 1 /\ fail <= Len(zin)
        /\ result' = [Call(arg, outpath) EXCEPT
                         !.err = "BadZipfile", !.signature = sig,
                         !.msg = "reading an entry of the input"]
        /\ fs' = [fs EXCEPT ![outpath] =
                     LeftBehind(<<Entry(S_zigbert_rsa, sig.bytes)>>
                                \o SubSeq(payload, 1, fail - 1))]
        /\ UNCHANGED <<zin, jar, nbuilt, formatVars>>

\* make_signed returns
MakeSignedDone(sig, arg, order) ==
    LET outpath == EffectiveOutpath(arg, jar)
        payload == SortedInfolist(zin, order)
        j1 == WithManifest(jar)
    IN  /\ outpath \notin {None, EmptyPath}
        /\ ~ fs[outpath].exists
        /\ sig.is_str
        /\ result' = [Call(arg, outpath) EXCEPT !.signature = sig]
        /\ fs' = [fs EXCEPT ![outpath] =
                     File(SignedEntries(sig.bytes, payload, jar))]
        /\ jar' = WithSignatures(j1)
        /\ nbuilt' = [manifest |-> Count(nbuilt.manifest,
                                         ManifestBuilds(jar)
                                         + SignaturesManifestBuilds(j1)),
                      sig |-> Count(nbuilt.sig, SignatureBuilds(j1))]
        /\ UNCHANGED <<zin, formatVars>>

\* jar.make_signed(signature, outpath): the signature and the output path
\* are the caller's, the point of failure (FailPoints) is the
\* environment's, and order is the order sorted() gives the entries; the
\* signature is read only once the output archive is open
MakeSigned ==
    \E arg \in {None, EmptyPath} \cup Paths :
       \/ MakeSignedRefused(arg)
       \/ MakeSignedNoInput(arg)
       \/ MakeSignedBadSignature(NotAStr, arg)
       \/ \E fail \in FailPoints, order \in Permutations(1..Len(zin)) :
             MakeSignedInterrupted(SigBytes, arg, fail, order)
       \/ \E order \in Permutations(1..Len(zin)) :
             MakeSignedDone(SigBytes, arg, order)

\* the format variables while the archive pipeline runs
FormatIdle == fm = NoManifest /\ buf = NoText /\ parsed = NotParsed

\* after JarExtractor(path, outpath, omit_signature_sections)
InitJar ==
    /\ zin \in JarArchives
    /\ \E outpath \in {None, P_OUT, P_ALT}, omit \in BOOLEAN :
          jar = JarExtractor(zin, outpath, omit)
    /\ fs \in [Paths -> {Absent, OldFile}]
    /\ fs[P_ALT] = OldFile
    /\ result = NoResult
    /\ nbuilt = [manifest |-> 0, sig |-> 0]
    /\ FormatIdle

NextJar == GetManifest \/ GetSignatures \/ GetSignature \/ MakeSigned

SpecJar == InitJar /\ [][NextJar]_vars

\* the extractor over the archives whose manifest order is examined
InitOrder ==
    /\ zin \in OrderArchives
    /\ jar = JarExtractor(zin, None, FALSE)
    /\ fs = [p \in Paths |-> Absent]
    /\ result = NoResult
    /\ nbuilt = [manifest |-> 0, sig |-> 0]
    /\ FormatIdle

NextOrder == GetManifest \/ GetSignatures \/ GetSignature

SpecOrder == InitOrder /\ [][NextOrder]_vars

\* ------------------------------------------------------------------------
\* The text format: str(Manifest) and Manifest.parse
\* ------------------------------------------------------------------------
\* the extractor variables while the format is exercised
JarIdle ==
    /\ zin = <<>>
    /\ jar = JarExtractor(<<>>, None, FALSE)
    /\ fs = [p \in Paths |-> Absent]
    /\ result = NoResult
    /\ nbuilt = [manifest |-> 0, sig |-> 0]

\* buf = str(fm)
Serialize ==
    /\ fm # NoManifest
    /\ ~ buf.set
    /\ buf' = Text(Str(fm))
    /\ UNCHANGED <<fm, parsed, jarVars>>

\* parsed = Manifest.parse(buf)
Parse ==
    /\ buf.set
    /\ parsed = NotParsed
    /\ parsed' = parse(buf.text)
    /\ UNCHANGED <<fm, buf, jarVars>>

\* a Manifest built from Sections, or a text to parse
InitFormat ==
    /\ \/ fm \in Manifests /\ buf = NoText
       \/ fm = NoManifest /\ buf \in {Text(t) : t \in InputTexts}
    /\ parsed = NotParsed
    /\ JarIdle

NextFormat == Serialize \/ Parse

SpecFormat == InitFormat /\ [][NextFormat]_vars

\* ------------------------------------------------------------------------
\* Properties
\* ------------------------------------------------------------------------
\* the names of a sequence of Sections or of entries
SectionNames(sections) == [i \in 1..Len(sections) |-> sections[i].name]
EntryNames(entries) == [i \in 1..Len(entries) |-> entries[i].filename]

\* a call of make_signed returned
Signed == result.op = "make_signed" /\ result.err = "none"

\* the entries of the archive the last call of make_signed wrote
Output == fs[result.outpath].entries

\* fm was serialized and the text parsed
RoundTripped == fm # NoManifest /\ buf.set /\ parsed # NotParsed

\* a name without whitespace and without path separators
PlainName(name) ==
    \A i \in 1..Len(name) : name[i] \notin Whitespace \cup {SLASH, BACKSLASH}

\* C1 Round-trip: for a Manifest built from Sections whose names do not end
\* in a path separator (here: names that hold no separator and no
\* whitespace at all), parse(str(m)) returns as many Sections in the same
\* order, each with the same name, the same set of algorithm names and the
\* same digest bytes per algorithm.
C1_RoundTrip ==
    (RoundTripped /\ \A i \in 1..Len(fm.sections) : PlainName(fm.sections[i].name))
    => /\ parsed.err = "none"
       /\ Len(parsed.manifest.sections) = Len(fm.sections)
       /\ \A i \in 1..Len(fm.sections) :
             LET a == fm.sections[i]
                 b == parsed.manifest.sections[i]
             IN  /\ b.name = a.name
                 /\ SeqToSet(b.algos) = SeqToSet(a.algos)
                 /\ b.digests = a.digests

\* the physical lines of the text of "Name: <name>" in buf, fm having one
\* Section: the lines from the third one to the one before Digest-Algorithms
NameLines ==
    LET lines == readlines(buf.text)
        D == {k \in 1..Len(lines) :
                 /\ Len(lines[k]) >= Len(S_DigestAlgorithmsColon)
                 /\ SubSeq(lines[k], 1, Len(S_DigestAlgorithmsColon))
                       = S_DigestAlgorithmsColon}
    IN  SubSeq(lines, 3, (CHOOSE k \in D : \A j \in D : k <= j) - 1)

\* C2 Name wrapping: a Section whose "Name: <path>" text is longer than 72
\* characters is serialized with its name spread over several physical
\* lines, every continuation line starting with a space, and parsing that
\* text yields a single Section whose name is the original path.
C2_NameWrapping ==
    (/\ RoundTripped
     /\ Len(fm.sections) = 1
     /\ Len(S_NamePrefix) + Len(fm.sections[1].name) > WrapWidth
     /\ ~ directory_re(fm.sections[1].name))
    => /\ Len(NameLines) > 1
       /\ \A k \in 2..Len(NameLines) : NameLines[k][1] = SP
       /\ parsed.err = "none"
       /\ Len(parsed.manifest.sections) = 1
       /\ parsed.manifest.sections[1].name = fm.sections[1].name

\* C3 Output ordering: in every successful make_signed the first entry of
\* the output is META-INF/zigbert.rsa holding the supplied signature bytes,
\* then come all the entries of the input archive and nothing else, then
\* META-INF/manifest.mf, then META-INF/zigbert.sf.
C3_OutputOrdering ==
    Signed =>
       LET n == Len(zin)
       IN  /\ Len(Output) = n + 3
           /\ Output[1] = Entry(S_zigbert_rsa, result.signature.bytes)
           /\ \A i \in 1..n : \E k \in 2..(n + 1) : Output[k] = zin[i]
           /\ \A k \in 2..(n + 1) : \E i \in 1..n : Output[k] = zin[i]
           /\ Output[n + 2].filename = S_manifest_mf
           /\ Output[n + 3].filename = S_zigbert_sf

\* a make_signed of an archive of two entries or more has returned
C3_Witness == Signed /\ Len(zin) >= 2 /\ Len(Output) = Len(zin) + 3

\* C4 Payload order: make_signed writes the entries of the input archive in
\* the order in which the input archive stores them.
C4_PayloadStoredOrder ==
    Signed => SubSeq(Output, 2, Len(zin) + 1) = zin

\* the effective output path of the call a step makes, by the rule of the
\* claim: the argument, else the constructor's outpath
C5_Effective == IF result'.arg \in {None, EmptyPath} THEN jar.outpath ELSE result'.arg

\* C5 Conflict refusal: a call of make_signed whose effective output path is
\* unset, or is the path of a file that exists, fails with IOError and
\* leaves the file system as it was.
C5_ConflictRefusal ==
    [][(/\ result'.op = "make_signed"
        /\ \/ C5_Effective \in {None, EmptyPath}
           \/ fs[C5_Effective].exists)
       => (result'.err = "IOError" /\ fs' = fs)]_vars

\* make_signed was refused for a file that exists, the argument naming it
\* and the constructor naming another path or none
C5_Witness ==
    /\ result.op = "make_signed"
    /\ result.err = "IOError"
    /\ result.existed
    /\ result.arg = result.outpath
    /\ jar.outpath # result.arg
    /\ fs[result.outpath] = OldFile

\* C6 All-or-nothing output: when make_signed fails after its checks of the
\* output path, there is no file at the output path afterwards.
C6_AllOrNothing ==
    (/\ result.op = "make_signed"
     /\ result.err # "none"
     /\ result.outpath \notin {None, EmptyPath}
     /\ ~ result.existed)
    => ~ fs[result.outpath].exists

\* the priority class of an entry, by the table of the claim
C7_Class(name) ==
    IF name = N_install_rdf THEN 1
    ELSE IF name \in {N_chrome_manifest, N_icon_png, N_icon64_png} THEN 2
    ELSE IF name \in {N_MPL, N_GPL, N_LGPL, N_COPYING, N_LICENSE, N_license_txt}
    THEN 5
    ELSE 4

\* the tuple (class, lower-cased directory, lower-cased base name) and the
\* order of tuples: component by component
C7_Tuple(name) == <<C7_Class(name), PathSplit(Lower(name))[1], PathSplit(Lower(name))[2]>>
C7_TupleLess(s, t) ==
    \/ s[1] < t[1]
    \/ s[1] = t[1] /\ StrLess(s[2], t[2])
    \/ s[1] = t[1] /\ s[2] = t[2] /\ StrLess(s[3], t[3])

\* the one string <class>-<lower-cased directory>-<lower-cased base name>
C7_KeyString(name) ==
    <<48 + C7_Class(name)>> \o <<DASH>> \o PathSplit(Lower(name))[1]
    \o <<DASH>> \o PathSplit(Lower(name))[2]

\* the names of the example of the claim, sorted
C7_Example == <<N_install_rdf, N_chrome_manifest, N_foo_txt, N_LICENSE>>

\* C7 as stated: of two Sections of the extractor's manifest with different
\* tuples (class, directory, base name), the one with the smaller tuple
\* comes first.
C7_TupleOrder ==
    LET names == SectionNames(jar._digests)
    IN  \A i \in 1..Len(names) : \A k \in (i + 1)..Len(names) :
           C7_Tuple(names[i]) # C7_Tuple(names[k])
           => C7_TupleLess(C7_Tuple(names[i]), C7_Tuple(names[k]))

\* C7 Priority ordering: the Sections of the extractor's manifest are the
\* entries that are no directories, ascending by the one string
\* <class>-<lower-cased directory>-<lower-cased base name> compared
\* character by character; a Section of a smaller class comes before one of
\* a greater class; foo.txt, install.rdf, chrome.manifest, LICENSE, in any
\* stored order, come out as install.rdf, chrome.manifest, foo.txt, LICENSE.
C7_PriorityOrdering ==
    LET names == SectionNames(jar._digests)
    IN  /\ \A i \in 1..Len(names) : \A k \in (i + 1)..Len(names) :
              /\ ~ StrLess(C7_KeyString(names[k]), C7_KeyString(names[i]))
              /\ C7_Class(names[i]) <= C7_Class(names[k])
        /\ SeqToSet(names) =
              {e.filename : e \in {x \in SeqToSet(zin) : ~ directory_re(x.filename)}}
        /\ SeqToSet(EntryNames(zin)) = SeqToSet(C7_Example) => names = C7_Example
        /\ jar._manifest # NoManifest => jar._manifest.sections = jar._digests

\* the manifest was built for the archive of the example, stored in the
\* order of the claim
C7_Witness ==
    /\ EntryNames(zin) = <<N_foo_txt, N_install_rdf, N_chrome_manifest, N_LICENSE>>
    /\ jar._manifest # NoManifest
    /\ SectionNames(jar._manifest.sections) = C7_Example

\* the numbers of the lines of buf that are longer than 72 characters once
\* their trailing whitespace is stripped
C8_LongLines ==
    {k \in 1..Len(ChainedLines(buf.text)) :
        Len(RStrip(ChainedLines(buf.text)[k])) > 72}

\* C8 Line-length enforcement: when line k is the first one longer than 72
\* characters after stripping and the lines before it raise nothing, parse
\* raises ParsingError with the number k and returns no Manifest; parse
\* raises "line too long" for no line of 72 characters or fewer.
C8_LineLength ==
    (buf.set /\ parsed # NotParsed) =>
       /\ C8_LongLines # {} =>
             LET k == CHOOSE x \in C8_LongLines : \A y \in C8_LongLines : x <= y
                 before == ParseLines(ParseStart, SubSeq(ChainedLines(buf.text), 1, k - 1), 1)
             IN  before.err = "none"
                 => /\ parsed.err = "ParsingError"
                    /\ parsed.msg = "line too long"
                    /\ parsed.errline = k
                    /\ parsed.manifest = NoManifest
       /\ parsed.msg = "line too long"
          => Len(RStrip(ChainedLines(buf.text)[parsed.errline])) > 72

\* parse rejected a line that is not the first for its length, and a line
\* of 72 characters stood before it
C8_Witness ==
    /\ buf.set
    /\ parsed.err = "ParsingError"
    /\ parsed.msg = "line too long"
    /\ parsed.errline > 1
    /\ \E k \in 1..(parsed.errline - 1) :
          Len(RStrip(ChainedLines(buf.text)[k])) = 72

\* C9 Directory exclusion: no Section of the extractor's manifest and no
\* Section of a Manifest parse returns has a name ending in a path
\* separator.
C9_NoDirectorySection ==
    /\ \A i \in 1..Len(jar._digests) : ~ directory_re(jar._digests[i].name)
    /\ parsed.err = "none"
       => \A i \in 1..Len(parsed.manifest.sections) :
             ~ directory_re(parsed.manifest.sections[i].name)

\* C10 Signature digest chain: once the Signature is built, its
\* digest_manifests hold, for md5 and sha1, the digest of the text of the
\* extractor's manifest, and the META-INF/manifest.mf a make_signed has
\* written holds that text.
C10_DigestChain ==
    /\ jar._sig # NoManifest
       => /\ jar._manifest # NoManifest
          /\ DOMAIN jar._sig.digest_manifests = {md5, sha1}
          /\ \A a \in {md5, sha1} :
                jar._sig.digest_manifests[a] = _digest(Str(jar._manifest))[a]
    /\ Signed
       => /\ jar._sig # NoManifest
          /\ Output[Len(Output) - 1] = Entry(S_manifest_mf, Str(jar._manifest))

\* make_signed has returned for an archive with a Section, one Signature
\* having been built in all
C10_Witness ==
    /\ Signed
    /\ nbuilt.sig = 1
    /\ Len(jar._manifest.sections) >= 1
    /\ Output[Len(Output) - 1].data = Str(jar._manifest)

\* C11 Cache-once: whatever the archive and the accesses to manifest,
\* signatures, signature and make_signed, the extractor constructs at most
\* one Manifest and at most one Signature.
C11_CacheOnce == nbuilt.manifest <= 1 /\ nbuilt.sig <= 1

\* C12 Section invariant: for every Section of the extractor and every
\* Section of a Manifest parse returns, the set of names in its algorithm
\* list is the set of keys of its digests.
C12_AlgosAreDigestKeys ==
    /\ \A i \in 1..Len(jar._digests) :
          SeqToSet(jar._digests[i].algos) = DOMAIN jar._digests[i].digests
    /\ parsed.err = "none"
       => \A i \in 1..Len(parsed.manifest.sections) :
             SeqToSet(parsed.manifest.sections[i].algos)
                = DOMAIN parsed.manifest.sections[i].digests

\* C13 Serialized line length: every physical line of the text of a
\* serialized Manifest, its line terminator not counted and the leading
\* space of a continuation line counted, is at most 72 characters long.
C13_SerializedLineLength ==
    (fm # NoManifest /\ buf.set)
    => \A k \in 1..Len(readlines(buf.text)) :
          Len(SelectSeq(readlines(buf.text)[k], LAMBDA c : c # NL)) <= 72

\* the lines of buf, their trailing whitespace stripped
StrippedLines ==
    [k \in 1..Len(readlines(buf.text)) |-> RStrip(readlines(buf.text)[k])]

\* a line that begins with a space, and a line that is a recognized header
IsContinuation(line) == Len(line) > 0 /\ continuation_re(line).ok
IsHeaderLine(line) == ~ IsContinuation(line) /\ headers_re(line).ok

\* the text of lines with line k taken out and its remainder (what follows
\* the leading space) appended to line k - 1
JoinedAt(lines, k) ==
    TextOfLines(SubSeq(lines, 1, k - 2)
                \o <<lines[k - 1] \o Tail(lines[k])>>
                \o SubSeq(lines, k + 1, Len(lines)))

\* C14 Continuation lines: a continuation line after a recognized header
\* line (here: any header but Name) appends its remainder to the value of
\* that header, so that parse returns what it returns for the text with the
\* two lines written as one; a continuation line with no active header
\* (first line, or first line after a blank line) makes parse fail with
\* ParsingError at that line.
C14_Continuation ==
    (fm = NoManifest /\ buf.set /\ parsed # NotParsed) =>
       \A k \in 1..Len(StrippedLines) :
          IsContinuation(StrippedLines[k]) =>
             /\ (/\ k > 1
                 /\ IsHeaderLine(StrippedLines[k - 1])
                 /\ Lower(headers_re(StrippedLines[k - 1]).header) # S_name
                 /\ Len(StrippedLines[k - 1]) + Len(StrippedLines[k]) - 1 <= 72
                 /\ parse(JoinedAt(StrippedLines, k)).err = "none")
                => /\ parsed.err = "none"
                   /\ parsed.manifest = parse(JoinedAt(StrippedLines, k)).manifest
             /\ (/\ k = 1 \/ StrippedLines[k - 1] = <<>>
                 /\ ParseLines(ParseStart, SubSeq(StrippedLines, 1, k - 1), 1).err = "none")
                => /\ parsed.err = "ParsingError"
                   /\ parsed.errline = k

\* a Name header whose value ends in a path separator
IsDirectoryName(line) ==
    /\ IsHeaderLine(line)
    /\ Lower(headers_re(line).header) = S_name
    /\ directory_re(headers_re(line).value)

\* a Digest-Algorithms line, or an <ALGO>-Digest line whose value is base64
IsDigestLine(line) ==
    /\ IsHeaderLine(line)
    /\ \/ Lower(headers_re(line).header) = S_digest_algorithms
       \/ /\ EndsWith(Lower(headers_re(line).header), S_ddigest)
          /\ b64decode(headers_re(line).value).ok

\* the first line of the section line i belongs to: the sections of a text
\* are its runs of lines that are not blank
SectionStart(lines, i) ==
    CHOOSE j \in 1..i :
       /\ j = 1 \/ lines[j - 1] = <<>>
       /\ \A h \in (j + 1)..i : lines[h - 1] # <<>>

\* lines without the sections that begin with the Name of a directory
WithoutDirectorySections(lines) ==
    LET K == {i \in 1..Len(lines) :
                 lines[i] = <<>> \/ ~ IsDirectoryName(lines[SectionStart(lines, i)])}
    IN  [n \in 1..Cardinality(K) |->
            lines[CHOOSE i \in K : Cardinality({j \in K : j <= i}) = n]]

\* C15 Directory marker discard: when sections of the input begin with a
\* Name whose value ends in a path separator, followed by nothing or by
\* Digest-Algorithms and <ALGO>-Digest lines only, parse raises nothing and
\* returns the Sections it returns for the input without those sections.
C15_DirectoryDiscard ==
    (/\ fm = NoManifest /\ buf.set /\ parsed # NotParsed
     /\ \E i \in 1..Len(StrippedLines) :
           IsDirectoryName(StrippedLines[i]) /\ SectionStart(StrippedLines, i) = i
     /\ \A i \in 1..Len(StrippedLines) :
           (/\ StrippedLines[i] # <<>>
            /\ SectionStart(StrippedLines, i) # i
            /\ IsDirectoryName(StrippedLines[SectionStart(StrippedLines, i)]))
           => IsDigestLine(StrippedLines[i])
     /\ parse(TextOfLines(WithoutDirectorySections(StrippedLines))).err = "none")
    => /\ parsed.err = "none"
       /\ parsed.manifest.sections
             = parse(TextOfLines(WithoutDirectorySections(StrippedLines))).manifest.sections

\* C16 Parse failure kind: parse returns a Manifest or raises ParsingError
\* and nothing else; a ParsingError carries the 1-based number of the
\* offending line, and no Manifest is returned with it.
C16_OnlyParsingError ==
    parsed # NotParsed
    => /\ parsed.err \in {"none", "ParsingError"}
       /\ parsed.err = "ParsingError"
          => /\ parsed.errline >= 1
             /\ parsed.manifest = NoManifest

\* C17 Parallel signature sections: the Signature has as many Sections as
\* the Manifest, and its i-th Section has the name of the i-th Section of
\* the Manifest and the digests of the serialized text of that Section.
C17_ParallelSections ==
    jar._sig # NoManifest
    => /\ jar._manifest # NoManifest
       /\ Len(jar._sig.sections) = Len(jar._manifest.sections)
       /\ \A i \in 1..Len(jar._sig.sections) :
             /\ jar._sig.sections[i].name = jar._manifest.sections[i].name
             /\ jar._sig.sections[i].digests
                   = _digest(SectionStr(jar._manifest.sections[i]))
             /\ SeqToSet(jar._sig.sections[i].algos) = {md5, sha1}

\* the Signature of an archive of two Sections or more was built
C17_Witness ==
    /\ jar._sig # NoManifest
    /\ Len(jar._sig.sections) >= 2
    /\ jar._sig.sections[2].digests # jar._manifest.sections[2].digests

\* the version line of a Signature, then one <ALGO>-Digest-Manifest line for
\* md5 and one for sha1, each line ended by "\n"
C18_Buffer ==
    S_Signature \o S_VersionSep \o version \o <<NL>>
    \o Upper(md5) \o S_DigestManifestSep
    \o b64encode(jar._sig.digest_manifests[md5]) \o <<NL>>
    \o Upper(sha1) \o S_DigestManifestSep
    \o b64encode(jar._sig.digest_manifests[sha1]) \o <<NL>>

\* C18 Signed buffer: the property signature is the version line and the
\* digest-manifest lines sorted by algorithm and nothing else, whatever the
\* omit flag; it is a prefix of the text make_signed writes as
\* META-INF/zigbert.sf and is that whole text exactly when the omit flag is
\* set.
C18_SignedBuffer ==
    /\ result.op = "signature" => result.value = C18_Buffer
    /\ Signed =>
          LET sf == Output[Len(Output)]
          IN  /\ sf.filename = S_zigbert_sf
              /\ Len(sf.data) >= Len(C18_Buffer)
              /\ SubSeq(sf.data, 1, Len(C18_Buffer)) = C18_Buffer
              /\ (sf.data = C18_Buffer) <=> jar.omit_sections

\* the signature of an extractor that keeps the individual sections was
\* read, the archive having a Section
C18_Witness ==
    /\ result.op = "signature"
    /\ ~ jar.omit_sections
    /\ Len(jar._sig.sections) >= 1
    /\ result.value = C18_Buffer
    /\ result.value # Str(jar._sig)

\* buf without the "\n" that ends it
C19_Unterminated == DropLast(buf.text, 1)

\* the Name header lines of buf
C19_NameLines ==
    {k \in 1..Len(StrippedLines) :
        /\ IsHeaderLine(StrippedLines[k])
        /\ Lower(headers_re(StrippedLines[k]).header) = S_name}

\* C19 Final-section flush: parse gives the same outcome for a text, for the
\* text plus one "\n" and for the text plus two, whether the text ends with
\* "\n" or not; the last section is materialized without a blank line after
\* it, and blank lines create no Sections of their own.
C19_FinalFlush ==
    (fm = NoManifest /\ buf.set /\ Len(buf.text) > 0 /\ parsed # NotParsed)
    => /\ parse(C19_Unterminated) = parsed
       /\ parse(buf.text \o <<NL>>) = parsed
       /\ parse(buf.text \o <<NL, NL>>) = parsed
       /\ parse(C19_Unterminated \o <<NL, NL>>) = parsed
       /\ parsed.err = "none"
          => Len(parsed.manifest.sections) <= Cardinality(C19_NameLines)
       /\ (/\ Len(StrippedLines) = 1
           /\ C19_NameLines = {1}
           /\ Len(StrippedLines[1]) <= 72
           /\ ~ directory_re(headers_re(StrippedLines[1]).value))
          => /\ parsed.err = "none"
             /\ Len(parsed.manifest.sections) = 1

\* parse returned a Section for a text whose last line is not blank, a
\* blank line standing before that section
C19_Witness ==
    /\ fm = NoManifest /\ buf.set
    /\ parsed.err = "none"
    /\ Len(parsed.manifest.sections) = 1
    /\ Len(StrippedLines) >= 2
    /\ StrippedLines[1] = <<>>
    /\ StrippedLines[Len(StrippedLines)] # <<>>
    /\ parse(C19_Unterminated) = parsed

\* the archive that stores the entries of zin in the order p
C20_Reordered(p) == [i \in 1..Len(zin) |-> zin[p[i]]]

\* C20 Order determinism: an archive that holds the entries of zin in
\* another stored order yields an extractor with the same Sections in the
\* same order, hence the same manifest text.
C20_OrderDeterminism ==
    \A p \in Permutations(1..Len(zin)) :
       LET other == JarExtractor(C20_Reordered(p), None, FALSE)
       IN  /\ other._digests = jar._digests
           /\ Str(WithManifest(other)._manifest) = Str(WithManifest(jar)._manifest)

Spec == SpecJar
====
